---- MODULE Spec2Model ----
(***************************************************************************)
(* A model of pystripe-ui (src/pystripe_ui/main.py): the tile catalog      *)
(* (collect_files), the divisor builder (ApplicationWindow.get_divisor),   *)
(* the composite engine (onZChange / updateDisplay), the widget handlers   *)
(* (hookSliderAndInput) and the script writer (fileSave).                  *)
(*                                                                         *)
(* Representation.  Arrays are sequences (1-based): Python row i is entry  *)
(* i+1.  A flat-field reference is modelled by its first column, the only  *)
(* part get_divisor reads (divisor[..., 0] and divisor.shape[0]).          *)
(***************************************************************************)
EXTENDS Integers, Sequences, FiniteSets, TLC

VARIABLES
    gd_reference,   \* get_divisor harness: first column of the reference
    gd_rows,        \* get_divisor harness: subimg.shape[0]
    gd_offset,      \* get_divisor harness: the offset slider's value
    gd_result,      \* get_divisor harness: [called, divisor], the returned array
    disk,           \* the file system: image file path -> pixel array (rows of ints)
    image_dirs,     \* options.image_dir: the acquisition roots of the command line
    app,            \* the process: [status, raised], see main()
    window,         \* the ApplicationWindow object: its fields and widgets
    handler,        \* what the last event handler did: [name, calls, ...]
    written         \* files written by fileSave: [scripts, flats]

gd_vars == <<gd_reference, gd_rows, gd_offset, gd_result>>
fs_vars == <<disk, image_dirs>>
ui_vars == <<app, window, handler, written>>
vars == <<gd_reference, gd_rows, gd_offset, gd_result, disk, image_dirs,
          app, window, handler, written>>

(***************************************************************************)
(* Bounds of the model.                                                    *)
(***************************************************************************)
MaxRefRows == 3     \* reference row counts D range over 1..MaxRefRows
MaxTileRows == 4    \* tile row counts r range over 1..MaxTileRows
MaxValue == 3       \* reference values range over 1..MaxValue
MaxOffset == 7      \* harness offsets range over -MaxOffset..MaxOffset
MaxNameLen == 4     \* tile directory names of up to MaxNameLen characters
MaxEvents == 2      \* user events handled in one session

Max(a, b) == IF a >= b THEN a ELSE b
Min(a, b) == IF a <= b THEN a ELSE b

(***************************************************************************)
(* Python / numpy basic slicing a[start:stop] of a length-n axis: a        *)
(* negative bound counts from the end, and both bounds are clipped to      *)
(* 0..n.  SliceBound normalises one bound; PySlice keeps rows              *)
(* start..stop-1 (0-based), i.e. entries start+1..stop (1-based).          *)
(***************************************************************************)
SliceBound(i, n) == IF i < 0 THEN Max(0, n + i) ELSE Min(i, n)

PySlice(s, start, stop) ==
    LET lo == SliceBound(start, Len(s))
        hi == SliceBound(stop, Len(s))
    IN  IF hi <= lo THEN << >> ELSE [i \in 1..(hi - lo) |-> s[lo + i]]

\* np.ones(n, dtype) * v : n copies of v
Ones(n, v) == [i \in 1..n |-> v]

(***************************************************************************)
(* ApplicationWindow.get_divisor, on the reference's first column          *)
(* `reference`, the tile's row count `rows` (subimg.shape[0]) and the      *)
(* offset slider's value `offset`.                                         *)
(***************************************************************************)
get_divisor_pad_first(reference, rows, offset) ==
    LET D == Len(reference)
    IN  IF offset < 0
        THEN LET y_slop == Max(0, rows - D - offset)
             IN  PySlice(reference, -offset, D) \o Ones(y_slop, reference[1])
        ELSE LET first == reference[1]
                 y_slop == Max(0, rows - D + offset)
             IN  Ones(y_slop, first) \o PySlice(reference, 0, D - offset)

get_divisor(reference, rows, offset) ==
    LET D == Len(reference)
    IN  IF offset < 0
        THEN LET last == reference[D]
                 y_slop == Max(0, rows - D - offset)
             IN  PySlice(reference, -offset, D) \o Ones(y_slop, last)
        ELSE LET first == reference[1]
                 y_slop == Max(0, rows - D + offset)
             IN  Ones(y_slop, first) \o PySlice(reference, 0, D - offset)


(***************************************************************************)
(* Strings.  File and directory names and the line edits' texts are        *)
(* sequences of one-character strings.  CharCode is the character's code   *)
(* point, which is what sorted() compares.                                 *)
(***************************************************************************)
Digits == <<"0", "1", "2", "3", "4", "5", "6", "7", "8", "9">>

IsDigit(c) == \E i \in 1..10 : Digits[i] = c

DigitValue(c) == (CHOOSE i \in 1..10 : Digits[i] = c) - 1

CharCode(c) ==
    CASE c = "-" -> 45
      [] c = "." -> 46
      [] c = "/" -> 47
      [] IsDigit(c) -> 48 + DigitValue(c)
      [] c = "_" -> 95
      [] c = "a" -> 97
      [] c = "b" -> 98
      [] c = "c" -> 99
      [] c = "d" -> 100
      [] c = "f" -> 102
      [] c = "i" -> 105
      [] c = "r" -> 114
      [] c = "t" -> 116
      [] c = "w" -> 119
      [] c = "z" -> 122

\* Python's str < str: the first differing character decides, a proper
\* prefix is smaller.
RECURSIVE StrLess(_, _)
StrLess(a, b) ==
    IF b = << >> THEN FALSE
    ELSE IF a = << >> THEN TRUE
    ELSE IF Head(a) # Head(b) THEN CharCode(Head(a)) < CharCode(Head(b))
    ELSE StrLess(Tail(a), Tail(b))

\* str.split(sep): the pieces between the separators, empty pieces included.
RECURSIVE Split(_, _)
Split(s, sep) ==
    IF \A i \in 1..Len(s) : s[i] # sep THEN <<s>>
    ELSE LET k == CHOOSE i \in 1..Len(s) :
                      s[i] = sep /\ \A j \in 1..(i - 1) : s[j] # sep
         IN  <<SubSeq(s, 1, k - 1)>> \o Split(SubSeq(s, k + 1, Len(s)), sep)

\* int(text) and float(text) accept an optional "-" and then one or more
\* digits; over this model's alphabet every other text raises ValueError.
IsNumeral(s) ==
    /\ Len(s) >= 1
    /\ IF s[1] = "-"
       THEN Len(s) >= 2 /\ \A i \in 2..Len(s) : IsDigit(s[i])
       ELSE \A i \in 1..Len(s) : IsDigit(s[i])

RECURSIVE DigitsValue(_)
DigitsValue(s) ==
    IF s = << >> THEN 0
    ELSE 10 * DigitsValue(SubSeq(s, 1, Len(s) - 1)) + DigitValue(s[Len(s)])

NumeralValue(s) ==
    IF s[1] = "-" THEN 0 - DigitsValue(Tail(s)) ELSE DigitsValue(s)

\* str(value) of an int
RECURSIVE NatStr(_)
NatStr(n) ==
    IF n < 10 THEN <<Digits[n + 1]>>
    ELSE NatStr(n \div 10) \o <<Digits[(n % 10) + 1]>>

IntStr(n) == IF n < 0 THEN <<"-">> \o NatStr(0 - n) ELSE NatStr(n)

(***************************************************************************)
(* int(text) of a str, and the conversion of the int to the C int that     *)
(* QSlider.setValue takes.  int() strips white space, takes one sign and   *)
(* digits with single underscores between digits; anything else raises     *)
(* ValueError.  A Python int is unbounded, a C int has 32 bits: the        *)
(* magnitude is kept in two 16-bit halves, with a flag for what does not   *)
(* fit 32 bits.                                                            *)
(***************************************************************************)
RECURSIVE Strip(_)
Strip(s) ==
    IF s = << >> THEN s
    ELSE IF Head(s) = " " THEN Strip(Tail(s))
    ELSE IF s[Len(s)] = " " THEN Strip(SubSeq(s, 1, Len(s) - 1))
    ELSE s

IsNegative(text) == Strip(text) # << >> /\ Head(Strip(text)) = "-"

\* the literal without white space and sign
Unsigned(text) ==
    LET s == Strip(text)
    IN  IF s # << >> /\ Head(s) \in {"+", "-"} THEN Tail(s) ELSE s

\* int(text) does not raise ValueError
IsIntLiteral(text) ==
    LET b == Unsigned(text)
    IN  /\ b # << >>
        /\ \A i \in 1..Len(b) :
              \/ IsDigit(b[i])
              \/ /\ b[i] = "_"
                 /\ i > 1 /\ i < Len(b)
                 /\ IsDigit(b[i - 1]) /\ IsDigit(b[i + 1])

Half == 65536

SignBit == 32768

\* the magnitude of a digit string: hi * 2^16 + lo is the magnitude modulo
\* 2^32, wide says that the magnitude is 2^32 or more
RECURSIVE Magnitude(_)
Magnitude(ds) ==
    IF ds = << >> THEN [hi |-> 0, lo |-> 0, wide |-> FALSE]
    ELSE LET m == Magnitude(SubSeq(ds, 1, Len(ds) - 1))
             lo10 == 10 * m.lo + DigitValue(ds[Len(ds)])
             hi10 == 10 * m.hi + (lo10 \div Half)
         IN  [hi |-> hi10 % Half, lo |-> lo10 % Half,
              wide |-> m.wide \/ hi10 >= Half]

IntMagnitude(text) == Magnitude(SelectSeq(Unsigned(text), IsDigit))

\* int(text) is in the range of a C int, -2^31 .. 2^31 - 1
FitsCInt(text) ==
    LET m == IntMagnitude(text)
    IN  /\ ~m.wide
        /\ \/ m.hi < SignBit
           \/ IsNegative(text) /\ m.hi = SignBit /\ m.lo = 0

\* int(text), for a text whose value fits a C int
IntValue(text) ==
    LET m == IntMagnitude(text)
    IN  IF IsNegative(text) THEN (0 - m.hi) * Half - m.lo
        ELSE m.hi * Half + m.lo

\* the C int left by an unchecked conversion of int(text): the low 32
\* bits of the two's complement, read as a signed number
CIntCast(text) ==
    LET m == IntMagnitude(text)
        borrow == IF m.lo = 0 THEN 0 ELSE 1
        lo == IF IsNegative(text) THEN (Half - m.lo) % Half ELSE m.lo
        hi == IF IsNegative(text) THEN (2 * Half - m.hi - borrow) % Half
              ELSE m.hi
    IN  IF hi >= SignBit THEN (hi - Half) * Half + lo ELSE hi * Half + lo

(***************************************************************************)
(* Paths.  An image file <root>/<xdir>/<xydir>/<stem>.<ext> is the record  *)
(* of its components; PathString is the path that glob returns.            *)
(***************************************************************************)
PathString(f) ==
    f.root \o <<"/">> \o f.xdir \o <<"/">> \o f.xydir \o <<"/">>
        \o f.stem \o <<".">> \o f.ext

\* sorted(paths)
RECURSIVE Sorted(_)
Sorted(S) ==
    IF S = {} THEN << >>
    ELSE LET m == CHOOSE x \in S : \A y \in S \ {x} :
                      StrLess(PathString(x), PathString(y))
         IN  <<m>> \o Sorted(S \ {m})

\* glob of <directory>/*/*/*.tif* and of <directory>/*/*/*.raw
IsTiff(f) == Len(f.ext) >= 3 /\ SubSeq(f.ext, 1, 3) = <<"t", "i", "f">>

IsRaw(f) == f.ext = <<"r", "a", "w">>

GlobTiff(files, directory) == {f \in files : f.root = directory /\ IsTiff(f)}

GlobRaw(files, directory) == {f \in files : f.root = directory /\ IsRaw(f)}

(***************************************************************************)
(* collect_files.  A dict is the sequence of its [key, value] entries in   *)
(* insertion order.  A grid key (x, y) holds the directory name's numbers, *)
(* i.e. tenths of a micron: the float x of the code is key[1] / 10.        *)
(* The result is [raised, stacks]: raised is "ValueError" when float() or  *)
(* the unpacking of x, y raises.                                           *)
(***************************************************************************)
HasKey(dict, key) == \E i \in 1..Len(dict) : dict[i].key = key

IndexOfKey(dict, key) == CHOOSE i \in 1..Len(dict) : dict[i].key = key

Lookup(dict, key) == dict[IndexOfKey(dict, key)].value

\* dict[key] = value: an existing key keeps its place
Store(dict, key, value) ==
    IF HasKey(dict, key)
    THEN [dict EXCEPT ![IndexOfKey(dict, key)].value = value]
    ELSE Append(dict, [key |-> key, value |-> value])

RECURSIVE collect_loop(_, _)
collect_loop(files, result) ==
    IF files = << >> THEN [raised |-> "none", stacks |-> result]
    ELSE LET file == Head(files)
             x_y == file.xydir
             parts == Split(x_y, "_")
         IN  IF \E i \in 1..Len(parts) : ~IsNumeral(parts[i])
             THEN [raised |-> "ValueError", stacks |-> << >>]
             ELSE IF Len(parts) # 2
             THEN [raised |-> "ValueError", stacks |-> << >>]
             ELSE LET key == <<NumeralValue(parts[1]), NumeralValue(parts[2])>>
                  IN  collect_loop(Tail(files),
                          IF HasKey(result, key)
                          THEN Store(result, key,
                                     Append(Lookup(result, key), file))
                          ELSE Store(result, key, <<file>>))

collect_files(files, directory) ==
    LET tiffs == Sorted(GlobTiff(files, directory))
        sorted_files == IF Len(tiffs) = 0
                        THEN Sorted(GlobRaw(files, directory))
                        ELSE tiffs
    IN  collect_loop(sorted_files, << >>)


(***************************************************************************)
(* Program constants.                                                      *)
(***************************************************************************)
XYVoxelTenths == 18     \* --xy-voxel-size, default 1.8 microns, in tenths
DarkMinimum == 0        \* dark_slider.setMinimum(0)
DarkMaximum == 250      \* dark_slider.setMaximum(250)
DarkDefault == 100      \* dark_slider.setValue(100), dark_input.setText("100")
OffsetMinimum == -200   \* y_slider.setMinimum(-200)
OffsetMaximum == 200    \* y_slider.setMaximum(200)
MaxZChoices == 40       \* more than 40 Z choices are thinned
ZChoiceTarget == 20     \* ... to every (len // 20)-th

(***************************************************************************)
(* The states before construction.                                         *)
(***************************************************************************)
NotStarted == [status |-> "not_started", raised |-> "none", events |-> 0]

NoCanvas == [first_display |-> TRUE, img |-> << >>,
             xcoords |-> << >>, ycoords |-> << >>]

NoWindow ==
    [image_directories |-> << >>, flat_files |-> << >>, images |-> << >>,
     z_chooser |-> [items |-> << >>, current |-> 0],
     dark_slider |-> 0, dark_input |-> << >>,
     stack_y_offset_slider_widget |-> << >>,
     stack_y_offset_box_widget |-> << >>,
     stack_flat_file_widget |-> << >>,
     canvas |-> NoCanvas]

NoReport == [raised |-> "none", shown |-> FALSE, shape |-> <<0, 0>>,
             writes |-> << >>, dark |-> 0, offsets |-> << >>, flats |-> << >>,
             images |-> << >>]

NoHandler == [name |-> "none", calls |-> 0, report |-> NoReport]

NothingWritten == [raised |-> "none", scripts |-> << >>, flats |-> << >>]

(***************************************************************************)
(* Numbers.  A composite pixel is the real number subimg / divisor; it is  *)
(* kept as the fraction <<numerator, denominator>> in lowest terms (the    *)
(* rounding of the quotient to float32 is not modelled; integers below     *)
(* 2^24 are exact in float32).                                             *)
(***************************************************************************)
RECURSIVE GCD(_, _)
GCD(a, b) == IF b = 0 THEN a ELSE GCD(b, a % b)

Fraction(n, d) == LET g == GCD(n, d) IN <<n \div g, d \div g>>

Zero == <<0, 1>>

\* x / voxel_size is a division of doubles: x is float(name) / 10 and the
\* voxel size is the double nearest 1.8, which is above 1.8.  For these
\* multiples c of 18 (and their negatives) the double quotient
\* (c / 10) / 1.8 is the double just below the integer c / 18; for every
\* other c up to 4000 it truncates as the exact quotient does.
QuotientBelowInteger ==
    { 234, 378, 468, 558, 666, 756, 846, 936, 1026, 1116, 1332, 1422, 1512,
      1602, 1692, 1782, 1872, 1962, 2052, 2142, 2232, 2574, 2664, 2754, 2844,
      2934, 3024, 3114, 3204, 3294, 3384, 3474, 3564, 3654, 3744, 3834, 3924 }

\* int(c / v) and ndarray.astype(int): the double quotient truncated toward
\* zero.  c and v are in tenths of a micron, so c / v is the code's
\* x / voxel_size; the table is for the voxel size 1.8 and |c| <= 4000.
TruncDiv(c, v) ==
    LET magnitude == IF c >= 0 THEN c ELSE 0 - c
        whole == magnitude \div v
        truncated == IF magnitude \in QuotientBelowInteger /\ v = XYVoxelTenths
                     THEN whole - 1 ELSE whole
    IN  IF c >= 0 THEN truncated ELSE 0 - truncated

\* sorted(set(values)) of integers
RECURSIVE SortedInts(_)
SortedInts(S) ==
    IF S = {} THEN << >>
    ELSE LET m == CHOOSE x \in S : \A y \in S : x <= y
         IN  <<m>> \o SortedInts(S \ {m})

\* get_x_coords / get_y_coords: the sorted distinct X (Y) of the keys
get_x_coords(paths) == SortedInts({paths[i].key[1] : i \in 1..Len(paths)})

get_y_coords(paths) == SortedInts({paths[i].key[2] : i \in 1..Len(paths)})

(***************************************************************************)
(* Images are sequences of rows.                                           *)
(***************************************************************************)
Rows(img) == Len(img)

Cols(img) == IF Len(img) = 0 THEN 0 ELSE Len(img[1])

Zeros(yshape, xshape) == [i \in 1..yshape |-> [j \in 1..xshape |-> Zero]]

imread(files, path) == files[path]

\* np.maximum(image, dark) - dark
DarkSubtract(image, dark) ==
    [i \in 1..Rows(image) |->
        [j \in 1..Cols(image) |-> Max(image[i][j], dark) - dark]]

\* subimg / divisor.reshape(n, 1): numpy broadcasts an (r, w) array against
\* an (n, 1) array when n = r, n = 1 or r = 1; the quotient has max(r, n)
\* rows.  Any other pair of shapes raises ValueError.
CanBroadcast(subimg, divisor) ==
    \/ Len(divisor) = Rows(subimg)
    \/ Len(divisor) = 1
    \/ Rows(subimg) = 1

Quotient(subimg, divisor) ==
    LET r == Rows(subimg)
        n == Len(divisor)
    IN  [i \in 1..Max(r, n) |->
            [j \in 1..Cols(subimg) |->
                Fraction(subimg[IF r = 1 THEN 1 ELSE i][j],
                         divisor[IF n = 1 THEN 1 ELSE i])]]

\* img[yidx:yidx+rows, xidx:xidx+cols] = value: the slice is clipped to
\* img, and value is broadcast to the slice's shape (each of its dimensions
\* must equal the slice's or be 1); otherwise numpy raises ValueError.
SliceRows(img, yidx, rows) == Max(0, Min(Rows(img), yidx + rows) - yidx)

SliceCols(img, xidx, cols) == Max(0, Min(Cols(img), xidx + cols) - xidx)

CanAssign(img, yidx, xidx, rows, cols, value) ==
    /\ Rows(value) \in {1, SliceRows(img, yidx, rows)}
    /\ Cols(value) \in {1, SliceCols(img, xidx, cols)}

Assign(img, yidx, xidx, rows, cols, value) ==
    [i \in 1..Rows(img) |->
        [j \in 1..Cols(img) |->
            IF /\ i > yidx /\ i <= yidx + SliceRows(img, yidx, rows)
               /\ j > xidx /\ j <= xidx + SliceCols(img, xidx, cols)
            THEN value[IF Rows(value) = 1 THEN 1 ELSE i - yidx]
                      [IF Cols(value) = 1 THEN 1 ELSE j - xidx]
            ELSE img[i][j]]]

(***************************************************************************)
(* ApplicationWindow.get_flat_file_from_widget: the first flat file whose  *)
(* base name is the combo box's current text ([0] raises IndexError when   *)
(* there is none).  The combo box holds the index of its current item, 0   *)
(* when it has no items; flat_files is keyed by base name.                 *)
(***************************************************************************)
HasFlatFile(w, key) ==
    LET widget == Lookup(w.stack_flat_file_widget, key)
    IN  widget >= 1 /\ widget <= Len(w.flat_files)

get_flat_file_from_widget(w, key) ==
    LET widget == Lookup(w.stack_flat_file_widget, key)
        file_text == w.flat_files[widget].key
    IN  Lookup(w.flat_files, file_text)

(***************************************************************************)
(* ApplicationWindow.updateDisplay.  The loop over imgdir is               *)
(* composite_loop: it carries the composite img and stops at the first     *)
(* exception, which the bare except of updateDisplay catches (the          *)
(* traceback is printed and canvas.show is not reached).  The result is    *)
(* the window and a report of the call: the exception caught, whether      *)
(* canvas.show ran, the allocated shape, the slice assignments made and    *)
(* the parameter values read.                                              *)
(***************************************************************************)
Placement(c, first_vox) == TruncDiv(c, XYVoxelTenths) - first_vox

RECURSIVE composite_loop(_, _, _, _, _, _)
composite_loop(w, entries, img, x0, y0, writes) ==
    IF entries = << >>
    THEN [raised |-> "none", img |-> img, writes |-> writes]
    ELSE LET key == Head(entries).key
             xidx == Placement(key[1], x0)
             yidx == Placement(key[2], y0)
         IN  IF ~HasKey(w.images, key)
             THEN [raised |-> "KeyError", img |-> img, writes |-> writes]
             ELSE IF ~HasFlatFile(w, key)
             THEN [raised |-> "IndexError", img |-> img, writes |-> writes]
             ELSE
             LET dark == w.dark_slider
                 subimg == DarkSubtract(Lookup(w.images, key), dark)
                 divisor == get_divisor(get_flat_file_from_widget(w, key),
                                Rows(subimg),
                                Lookup(w.stack_y_offset_slider_widget, key))
             IN  IF ~CanBroadcast(subimg, divisor)
                 THEN [raised |-> "ValueError", img |-> img, writes |-> writes]
                 ELSE IF ~CanAssign(img, yidx, xidx, Rows(subimg),
                                    Cols(subimg), Quotient(subimg, divisor))
                 THEN [raised |-> "ValueError", img |-> img, writes |-> writes]
                 ELSE composite_loop(w, Tail(entries),
                          Assign(img, yidx, xidx, Rows(subimg), Cols(subimg),
                                 Quotient(subimg, divisor)),
                          x0, y0,
                          Append(writes,
                              [key |-> key, yidx |-> yidx, xidx |-> xidx,
                               rows |-> Rows(subimg), cols |-> Cols(subimg)]))

\* xs_vox[1:] - xs_vox[0]
GridLines(vox) == [i \in 1..(Len(vox) - 1) |-> vox[i + 1] - vox[1]]

ParametersRead(w) ==
    [dark |-> w.dark_slider,
     offsets |-> w.stack_y_offset_slider_widget,
     flats |-> w.stack_flat_file_widget,
     images |-> w.images]

updateDisplay(w) ==
    LET imgdir == w.image_directories[1].value
        xs == get_x_coords(imgdir)
        ys == get_y_coords(imgdir)
        xs_vox == [i \in 1..Len(xs) |-> TruncDiv(xs[i], XYVoxelTenths)]
        ys_vox == [i \in 1..Len(ys) |-> TruncDiv(ys[i], XYVoxelTenths)]
        read == ParametersRead(w)
    IN  IF w.images = << >>
        THEN [window |-> w,
              report |-> [raised |-> "IndexError", shown |-> FALSE,
                          shape |-> <<0, 0>>, writes |-> << >>] @@ read]
        ELSE
        LET some_image == w.images[1].value
            xshape == xs_vox[Len(xs_vox)] - xs_vox[1] + Cols(some_image)
            yshape == ys_vox[Len(ys_vox)] - ys_vox[1] + Rows(some_image)
            done == composite_loop(w, imgdir, Zeros(yshape, xshape),
                                   xs_vox[1], ys_vox[1], << >>)
        IN  IF done.raised # "none"
            THEN [window |-> w,
                  report |-> [raised |-> done.raised, shown |-> FALSE,
                              shape |-> <<yshape, xshape>>,
                              writes |-> done.writes] @@ read]
            ELSE [window |-> [w EXCEPT !.canvas =
                                 [first_display |-> FALSE, img |-> done.img,
                                  xcoords |-> GridLines(xs_vox),
                                  ycoords |-> GridLines(ys_vox)]],
                  report |-> [raised |-> "none", shown |-> TRUE,
                              shape |-> <<yshape, xshape>>,
                              writes |-> done.writes] @@ read]

(***************************************************************************)
(* ApplicationWindow.onZChange: every stack that has a file named          *)
(* <z>.<ext> loads it; a stack that has none keeps the image it had.       *)
(***************************************************************************)
CurrentText(chooser) ==
    IF chooser.current = 0 THEN << >> ELSE chooser.items[chooser.current]

\* os.path.split(_)[1].startswith(z + "."): stems hold no "."
StartsWithZ(file, z) == file.stem = z

RECURSIVE load_loop(_, _, _, _)
load_loop(files, entries, z, images) ==
    IF entries = << >> THEN images
    ELSE LET key == Head(entries).key
             filename == SelectSeq(Head(entries).value,
                                   LAMBDA f : StartsWithZ(f, z))
         IN  load_loop(files, Tail(entries), z,
                 IF Len(filename) > 0
                 THEN Store(images, key, imread(files, filename[1]))
                 ELSE images)

onZChange(files, w) ==
    LET imgdir == w.image_directories[1].value
        z == CurrentText(w.z_chooser)
    IN  updateDisplay([w EXCEPT !.images = load_loop(files, imgdir, z, @)])

(***************************************************************************)
(* hookSliderAndInput.  A hook is a slider and its line edit: the dark     *)
(* level's, or the Y offset's of one stack.  Every handler returns the     *)
(* window, the number of updateDisplay calls it made and the last call's   *)
(* report.                                                                 *)
(***************************************************************************)
DarkHook == [kind |-> "dark", key |-> <<0, 0>>]

OffsetHook(key) == [kind |-> "offset", key |-> key]

SliderMinimum(hook) ==
    IF hook.kind = "dark" THEN DarkMinimum ELSE OffsetMinimum

SliderMaximum(hook) ==
    IF hook.kind = "dark" THEN DarkMaximum ELSE OffsetMaximum

SliderValue(w, hook) ==
    IF hook.kind = "dark" THEN w.dark_slider
    ELSE Lookup(w.stack_y_offset_slider_widget, hook.key)

WithSliderValue(w, hook, value) ==
    IF hook.kind = "dark" THEN [w EXCEPT !.dark_slider = value]
    ELSE [w EXCEPT !.stack_y_offset_slider_widget = Store(@, hook.key, value)]

InputText(w, hook) ==
    IF hook.kind = "dark" THEN w.dark_input
    ELSE Lookup(w.stack_y_offset_box_widget, hook.key)

\* QLineEdit.setText
WithInputText(w, hook, text) ==
    IF hook.kind = "dark" THEN [w EXCEPT !.dark_input = text]
    ELSE [w EXCEPT !.stack_y_offset_box_widget = Store(@, hook.key, text)]

NoCall(w) == [window |-> w, calls |-> 0, report |-> NoReport]

OneCall(u) == [window |-> u.window, calls |-> 1, report |-> u.report]

\* onSliderChanged(value): the slider already holds value
onSliderChanged(w, hook, value) ==
    OneCall(updateDisplay(WithInputText(w, hook, IntStr(value))))

\* QSlider.setValue: the value is clipped to the slider's range, and
\* valueChanged is emitted only when the slider's value changes.
setValue_silent(w, hook, value) ==
    LET bound == Max(SliderMinimum(hook), Min(SliderMaximum(hook), value))
    IN  NoCall(WithSliderValue(w, hook, bound))

setValue_unbounded(w, hook, value) ==
    IF value = SliderValue(w, hook) THEN NoCall(w)
    ELSE onSliderChanged(WithSliderValue(w, hook, value), hook, value)

setValue(w, hook, value) ==
    LET bound == Max(SliderMinimum(hook), Min(SliderMaximum(hook), value))
    IN  IF bound = SliderValue(w, hook) THEN NoCall(w)
        ELSE onSliderChanged(WithSliderValue(w, hook, bound), hook, bound)

\* what the Qt binding does with an int that does not fit the C int of
\* QSlider.setValue: it raises OverflowError, or it keeps the low 32 bits
Conversions == {"checked", "unchecked"}

\* onInputChanged(text): the ValueError of int(text) is passed over, an
\* OverflowError of setValue is not caught
onInputChanged(w, hook, text, conversion) ==
    IF ~IsIntLiteral(text)
    THEN [raised |-> "none", outcome |-> NoCall(w)]
    ELSE IF FitsCInt(text)
    THEN [raised |-> "none", outcome |-> setValue(w, hook, IntValue(text))]
    ELSE IF conversion = "unchecked"
    THEN [raised |-> "none", outcome |-> setValue(w, hook, CIntCast(text))]
    ELSE [raised |-> "OverflowError", outcome |-> NoCall(w)]

(***************************************************************************)
(* ApplicationWindow.__init__ and init_interface, as run by main().  An    *)
(* exception of collect_files, or of init_interface, is not caught: the    *)
(* process ends with the traceback.  Dicts are taken to keep insertion     *)
(* order (CPython 3.6 and later).                                          *)
(***************************************************************************)
\* the flat files found by the --flat-files glob, sorted: base name and
\* first column of each
FlatLibrary ==
    << [key |-> <<"a">>, value |-> <<1, 1>>],
       [key |-> <<"b">>, value |-> <<1, 2, 4>>] >>

RECURSIVE catalog_loop(_, _, _)
catalog_loop(files, dirs, result) ==
    IF dirs = << >> THEN [raised |-> "none", image_directories |-> result]
    ELSE LET got == collect_files(DOMAIN files, Head(dirs))
         IN  IF got.raised # "none"
             THEN [raised |-> got.raised, image_directories |-> << >>]
             ELSE catalog_loop(files, Tail(dirs),
                               Store(result, Head(dirs), got.stacks))

\* the Z chooser's items: the stems of the first stack's files, thinned
\* to every (len // 20)-th when there are more than 40
ZChoices(stackfiles) ==
    LET choices == [i \in 1..Len(stackfiles) |-> stackfiles[i].stem]
        spacing == Len(choices) \div ZChoiceTarget
    IN  IF Len(choices) > MaxZChoices
        THEN [i \in 1..((Len(choices) + spacing - 1) \div spacing) |->
                 choices[(i - 1) * spacing + 1]]
        ELSE choices

\* the keys of the grid of controls, in the order of the loops over xi and
\* yi: a key that is not in imgdir is skipped
RECURSIVE GridKeys(_, _, _, _, _)
GridKeys(imgdir, x, y, xi, yi) ==
    IF xi > Len(x) THEN << >>
    ELSE IF yi > Len(y) THEN GridKeys(imgdir, x, y, xi + 1, 1)
    ELSE LET key == <<x[xi], y[yi]>>
         IN  (IF HasKey(imgdir, key) THEN <<key>> ELSE << >>)
                 \o GridKeys(imgdir, x, y, xi, yi + 1)

init_interface(files, w) ==
    LET imgdir == w.image_directories[1].value
        stackfiles == imgdir[1].value
        choices == ZChoices(stackfiles)
        x == get_x_coords(imgdir)
        y == get_y_coords(imgdir)
        keys == GridKeys(imgdir, x, y, 1, 1)
        w1 == [w EXCEPT
                 !.z_chooser = [items |-> choices,
                                current |-> IF Len(choices) = 0 THEN 0 ELSE 1],
                 !.dark_input = IntStr(DarkDefault),
                 !.dark_slider = DarkDefault,
                 !.stack_y_offset_box_widget =
                     [i \in 1..Len(keys) |-> [key |-> keys[i], value |-> IntStr(0)]],
                 !.stack_y_offset_slider_widget =
                     [i \in 1..Len(keys) |-> [key |-> keys[i], value |-> 0]],
                 !.stack_flat_file_widget =
                     [i \in 1..Len(keys) |->
                         [key |-> keys[i],
                          value |-> IF Len(w.flat_files) = 0 THEN 0 ELSE 1]]]
    IN  onZChange(files, w1)

main(files, dirs) ==
    LET got == catalog_loop(files, dirs, << >>)
    IN  IF got.raised # "none"
        THEN [app |-> [status |-> "crashed", raised |-> got.raised, events |-> 0],
              window |-> NoWindow, handler |-> NoHandler]
        ELSE IF got.image_directories[1].value = << >>
        THEN [app |-> [status |-> "crashed", raised |-> "IndexError", events |-> 0],
              window |-> NoWindow, handler |-> NoHandler]
        ELSE LET w == [NoWindow EXCEPT
                          !.image_directories = got.image_directories,
                          !.flat_files = FlatLibrary]
                 u == init_interface(files, w)
             IN  [app |-> [status |-> "running", raised |-> "none", events |-> 0],
                  window |-> u.window,
                  handler |-> [name |-> "init_interface", calls |-> 1,
                               report |-> u.report]]

(***************************************************************************)
(* The divisor builder on its own: any reference column, tile row count    *)
(* and offset within the bounds, and the scenario of a 50-row ramp.        *)
(***************************************************************************)
SeqsUpTo(S, n) == UNION {[1..k -> S] : k \in 1..n}

Ramp50 == [i \in 1..50 |-> i]

DivisorInit ==
    /\ \/ /\ gd_reference \in SeqsUpTo(1..MaxValue, MaxRefRows)
          /\ gd_rows \in 1..MaxTileRows
          /\ gd_offset \in (-MaxOffset)..MaxOffset
       \/ /\ gd_reference = Ramp50
          /\ gd_rows = 50
          /\ gd_offset \in {-5, 0, 5}
    /\ gd_result = [called |-> FALSE, divisor |-> << >>]
    /\ disk = << >> /\ image_dirs = << >>
    /\ app = NotStarted /\ window = NoWindow
    /\ handler = NoHandler /\ written = NothingWritten

CallGetDivisor ==
    /\ ~gd_result.called
    /\ gd_result' = [called |-> TRUE,
                     divisor |-> get_divisor(gd_reference, gd_rows, gd_offset)]
    /\ UNCHANGED <<gd_reference, gd_rows, gd_offset>>
    /\ UNCHANGED <<fs_vars, ui_vars>>

DivisorNext == CallGetDivisor

SpecDivisor == DivisorInit /\ [][DivisorNext]_vars

(***************************************************************************)
(* Claims about the divisor builder (checked under SpecDivisor).           *)
(***************************************************************************)

\* The part of the reference column left after dropping |offset| rows (offset < 0)
RowsLeft == Max(0, Len(gd_reference) + gd_offset)

\* C1: for every reference row count D >= 1, tile row count r >= 1 and signed
\* offset o, the returned divisor has exactly r entries.
C1_DivisorHasTileRows ==
    gd_result.called => Len(gd_result.divisor) = gd_rows

\* C2: for offset < 0 the divisor is the reference column with its first
\* |offset| rows dropped, followed only by repetitions of the column's last
\* value; padding appears only when the tile is taller than what is left, and
\* the divisor is then never shorter than the tile.  For the 50-row ramp 1..50,
\* a 50-row tile and offset -5 it is 6..50 followed by 50 five times.
C2_NegativeOffsetDropsThenPadsLast ==
    (gd_result.called /\ gd_offset < 0) =>
        LET d == gd_result.divisor
            D == Len(gd_reference)
        IN  /\ Len(d) >= RowsLeft
            /\ Len(d) >= gd_rows
            /\ \A i \in 1..RowsLeft : d[i] = gd_reference[i - gd_offset]
            /\ \A i \in (RowsLeft + 1)..Len(d) : d[i] = gd_reference[D]
            /\ (Len(d) > RowsLeft) => (gd_rows > RowsLeft)
            /\ (gd_reference = Ramp50 /\ gd_rows = 50 /\ gd_offset = -5) =>
                   d = [i \in 1..50 |-> IF i <= 45 THEN i + 5 ELSE 50]

\* C2 witness: the ramp scenario has run and returned 6..50, 50 x 5.
C2_Witness ==
    /\ gd_result.called
    /\ gd_reference = Ramp50 /\ gd_rows = 50 /\ gd_offset = -5
    /\ Len(gd_result.divisor) = 50
    /\ gd_result.divisor[1] = 6
    /\ gd_result.divisor[45] = 50
    /\ gd_result.divisor[50] = 50

\* C3: for offset o >= 0 the divisor is o repetitions of the column's first
\* value followed by the column's rows in order, cut to the tile's rows: entry
\* i (0-based) is reference[0] for i < o and reference[i - o] for
\* o <= i < tile_rows (where the column has a row i - o).
C3_NonNegativeOffsetPadsFirstThenProfile ==
    (gd_result.called /\ gd_offset >= 0) =>
        LET d == gd_result.divisor
            D == Len(gd_reference)
        IN  \A i \in 0..(gd_rows - 1) :
                (i - gd_offset < D) =>
                    /\ i + 1 <= Len(d)
                    /\ d[i + 1] = IF i < gd_offset
                                  THEN gd_reference[1]
                                  ELSE gd_reference[i - gd_offset + 1]

\* C4: for offset 0 the first min(r, D) entries of the divisor are the first
\* min(r, D) entries of the reference column, in the same positions.
C4_ZeroOffsetKeepsProfileInPlace ==
    (gd_result.called /\ gd_offset = 0) =>
        LET d == gd_result.divisor
            n == Min(gd_rows, Len(gd_reference))
        IN  /\ Len(d) >= n
            /\ \A i \in 1..n : d[i] = gd_reference[i]

(***************************************************************************)
(* The catalog on its own: one acquisition root with a tile directory of   *)
(* any name over a small alphabet (and "abc_def"), alone or beside the     *)
(* well-formed directory 0_0; then main() constructs the window.           *)
(***************************************************************************)
RootA == <<"a">>

RootB == <<"b">>

Tif == <<"t", "i", "f">>

ImageFile(root, xdir, xydir, stem) ==
    [root |-> root, xdir |-> xdir, xydir |-> xydir, stem |-> stem, ext |-> Tif]

NameAlphabet == {"1", "a", "_", "-"}

AbcDef == <<"a", "b", "c", "_", "d", "f">>

DirNames == SeqsUpTo(NameAlphabet, MaxNameLen) \cup {AbcDef}

OnePixel == << <<0>> >>

CatalogInit ==
    /\ \E name \in DirNames : \E beside \in BOOLEAN :
          LET named == ImageFile(RootA, <<"1">>, name, <<"0">>)
              good == ImageFile(RootA, <<"0">>, <<"0", "_", "0">>, <<"0">>)
              files == IF beside THEN {named, good} ELSE {named}
          IN  disk = [f \in files |-> OnePixel]
    /\ image_dirs = <<RootA>>
    /\ app = NotStarted /\ window = NoWindow
    /\ handler = NoHandler /\ written = NothingWritten
    /\ gd_reference = << >> /\ gd_rows = 0 /\ gd_offset = 0
    /\ gd_result = [called |-> FALSE, divisor |-> << >>]

\* main(): parse_args, ApplicationWindow(...), window.show(), app.exec()
Start ==
    /\ app.status = "not_started"
    /\ LET m == main(disk, image_dirs)
       IN  app' = m.app /\ window' = m.window /\ handler' = m.handler
    /\ UNCHANGED <<written, fs_vars, gd_vars>>

CatalogNext == Start

SpecCatalog == CatalogInit /\ [][CatalogNext]_vars

(***************************************************************************)
(* Acquisitions for the interactive session.  A layout lists the tiles     *)
(* (grid position in tenths of a micron and the Z planes on disk) and the  *)
(* tiles' shape; its files are <root>/<X>/<X>_<Y>/<Z>.tif.  Pixel values   *)
(* differ from tile to tile and plane to plane and lie on both sides of    *)
(* the dark levels.                                                        *)
(***************************************************************************)
Tile(x, y, planes) == [x |-> x, y |-> y, planes |-> planes]

XYName(x, y) == IntStr(x) \o <<"_">> \o IntStr(y)

PixelValue(t, z, i, j) == 50 * i + 100 * (j - 1) + 7 * (t - 1) + z

TileImage(layout, t, z) ==
    [i \in 1..layout.rows |->
        [j \in 1..layout.cols |-> PixelValue(t, z, i, j)]]

LayoutFiles(layout, root) ==
    {ImageFile(root, IntStr(layout.tiles[t].x),
               XYName(layout.tiles[t].x, layout.tiles[t].y), IntStr(z)) :
         <<t, z>> \in {tz \in (1..Len(layout.tiles)) \X (0..1) :
                          tz[2] \in layout.tiles[tz[1]].planes}}

LayoutDisk(layout, root) ==
    [f \in LayoutFiles(layout, root) |->
        LET t == CHOOSE t \in 1..Len(layout.tiles) :
                     f.xydir = XYName(layout.tiles[t].x, layout.tiles[t].y)
        IN  TileImage(layout, t, NumeralValue(f.stem))]

OneTile == [tiles |-> <<Tile(0, 0, {0, 1})>>, rows |-> 2, cols |-> 2]

ShortStack ==
    [tiles |-> <<Tile(0, 0, {0, 1}), Tile(36, 0, {0})>>, rows |-> 2, cols |-> 2]

LateStack ==
    [tiles |-> <<Tile(0, 0, {0, 1}), Tile(36, 36, {1})>>, rows |-> 2, cols |-> 1]

AcrossZero ==
    [tiles |-> <<Tile(-20, 0, {0}), Tile(20, 0, {0})>>, rows |-> 3, cols |-> 2]

TwoByTwo ==
    [tiles |-> <<Tile(0, 0, {0}), Tile(0, 36, {0}),
                 Tile(36, 0, {0}), Tile(36, 36, {0})>>,
     rows |-> 2, cols |-> 2]

\* 23.4 microns is 13 voxels of 1.8 microns; the path of 234 sorts before
\* the path of 36
ThirteenVoxels ==
    [tiles |-> <<Tile(36, 0, {0}), Tile(234, 0, {0})>>, rows |-> 2, cols |-> 2]

Layouts == {OneTile, ShortStack, LateStack, AcrossZero, TwoByTwo, ThirteenVoxels}

\* what a user drags a slider to, and what a user types into a line edit
SliderStops(hook) ==
    IF hook.kind = "dark" THEN {0, 250} ELSE {-1, 1}

TenNines == <<"9", "9", "9", "9", "9", "9", "9", "9", "9", "9">>

TypedTexts ==
    { <<" ", "1", "_", "0">>, <<"3", "0", "0">>, <<"-", "3", "0", "0">>,
      TenNines, <<"1", ".", "5">>, << >> }

Init ==
    /\ \E layout \in Layouts : disk = LayoutDisk(layout, RootA)
    /\ image_dirs = <<RootA>>
    /\ LET m == main(disk, image_dirs)
       IN  app = m.app /\ window = m.window /\ handler = m.handler
    /\ written = NothingWritten
    /\ gd_reference = << >> /\ gd_rows = 0 /\ gd_offset = 0
    /\ gd_result = [called |-> FALSE, divisor |-> << >>]

Keys == {window.image_directories[1].value[i].key :
            i \in 1..Len(window.image_directories[1].value)}

Hooks == {DarkHook} \cup {OffsetHook(key) : key \in Keys}

CanHandleEvent == app.status = "running" /\ app.events < MaxEvents

Handled(name, h) ==
    /\ window' = h.window
    /\ handler' = [name |-> name, calls |-> h.calls, report |-> h.report]
    /\ app' = [app EXCEPT !.events = @ + 1]
    /\ UNCHANGED <<written, fs_vars, gd_vars>>

\* the user drags a slider: the slider takes the value and emits valueChanged
MoveSlider ==
    /\ CanHandleEvent
    /\ \E hook \in Hooks : \E value \in SliderStops(hook) :
          /\ value # SliderValue(window, hook)
          /\ Handled("onSliderChanged", setValue(window, hook, value))

\* the user edits a line edit: it holds the text and emits textEdited
\* An exception that leaves the slot either ends the process (PyQt 5.5 and
\* later abort on it) or is printed, and the event loop goes on.
EditText ==
    /\ CanHandleEvent
    /\ \E hook \in Hooks : \E text \in TypedTexts :
       \E conversion \in Conversions :
          /\ text # InputText(window, hook)
          /\ LET edited == WithInputText(window, hook, text)
                 slot == onInputChanged(edited, hook, text, conversion)
             IN  IF slot.raised = "none"
                 THEN Handled("onInputChanged", slot.outcome)
                 ELSE \/ Handled("onInputChanged", slot.outcome)
                      \/ /\ window' = edited
                         /\ handler' = [name |-> "onInputChanged", calls |-> 0,
                                        report |-> NoReport]
                         /\ app' = [status |-> "crashed",
                                    raised |-> slot.raised,
                                    events |-> app.events + 1]
                         /\ UNCHANGED <<written, fs_vars, gd_vars>>

\* the user picks a Z: currentTextChanged is emitted when the text changes
SelectZ ==
    /\ CanHandleEvent
    /\ \E i \in 1..Len(window.z_chooser.items) :
          /\ window.z_chooser.items[i] # CurrentText(window.z_chooser)
          /\ Handled("onZChange",
                     OneCall(onZChange(disk,
                         [window EXCEPT !.z_chooser.current = i])))

\* the user picks a flat file of one stack: currentTextChanged -> updateDisplay
SelectFlat ==
    /\ CanHandleEvent
    /\ \E key \in Keys : \E i \in 1..Len(window.flat_files) :
          /\ window.flat_files[i].key #
                 window.flat_files[Lookup(window.stack_flat_file_widget, key)].key
          /\ Handled("updateDisplay",
                     OneCall(updateDisplay(
                         [window EXCEPT !.stack_flat_file_widget =
                                            Store(@, key, i)])))

(***************************************************************************)
(* ApplicationWindow.fileSave.  The file system after a save is `written`: *)
(* the scripts (acquisition root -> the commands of its run_pystripe.sh)   *)
(* and the flats (<X>_<Y> name -> divisor image).  An exception raised in  *)
(* fileSave is caught nowhere: what was written before it stays written.   *)
(***************************************************************************)
DEFAULT_PYSTRIPE_ARGS == "--sigma1 256 --sigma2 256 --wavelet db5 --crossover 10"

Destriped == <<"_", "d", "e", "s", "t", "r", "i", "p", "e", "d">>

\* os.path.dirname(file): the tile directory <root>/<X>/<X>_<Y>
Dirname(f) == [root |-> f.root, xdir |-> f.xdir, xydir |-> f.xydir]

\* np.column_stack([divisor] * cols)
ColumnStack(divisor, cols) ==
    [i \in 1..Len(divisor) |-> [j \in 1..cols |-> divisor[i]]]

RECURSIVE stacks_loop(_, _, _, _, _)
stacks_loop(w, path, stacks, command, flats) ==
    IF stacks = << >>
    THEN [raised |-> "none", command |-> command, flats |-> flats]
    ELSE LET key == Head(stacks).key
             stack_dir == Dirname(Head(stacks).value[1])
             stack_xy == stack_dir.xydir
             stack_x == stack_dir.xdir
             flat_name == stack_xy
             line == [input |-> stack_dir,
                      output |-> [root |-> path \o Destriped,
                                  xdir |-> stack_x, xydir |-> stack_xy],
                      flat |-> flat_name,
                      dark |-> w.dark_slider,
                      args |-> DEFAULT_PYSTRIPE_ARGS]
         IN  IF HasKey(flats, flat_name)
             THEN stacks_loop(w, path, Tail(stacks), Append(command, line), flats)
             ELSE IF ~HasKey(w.images, key)
             THEN [raised |-> "KeyError", command |-> command, flats |-> flats]
             ELSE IF ~HasKey(w.stack_flat_file_widget, key)
             THEN [raised |-> "KeyError", command |-> command, flats |-> flats]
             ELSE IF ~HasFlatFile(w, key)
             THEN [raised |-> "IndexError", command |-> command, flats |-> flats]
             ELSE LET typical_img == Lookup(w.images, key)
                      divisor == get_divisor(get_flat_file_from_widget(w, key),
                                     Rows(typical_img),
                                     Lookup(w.stack_y_offset_slider_widget, key))
                  IN  stacks_loop(w, path, Tail(stacks), Append(command, line),
                          Store(flats, flat_name,
                                ColumnStack(divisor, Cols(typical_img))))

\* the loop over self.image_directories; it returns the last path and its
\* command, which is all that is left when the loop ends
RECURSIVE roots_loop(_, _, _, _, _)
roots_loop(w, roots, path, command, flats) ==
    IF roots = << >>
    THEN [raised |-> "none", path |-> path, command |-> command, flats |-> flats]
    ELSE LET got == stacks_loop(w, Head(roots).key, Head(roots).value,
                                << >>, flats)
         IN  IF got.raised # "none"
             THEN [raised |-> got.raised, path |-> Head(roots).key,
                   command |-> got.command, flats |-> got.flats]
             ELSE roots_loop(w, Tail(roots), Head(roots).key,
                             got.command, got.flats)

\* written_flats starts empty at every save: the flats of this save
\* overwrite those of an earlier one
RECURSIVE StoreAll(_, _)
StoreAll(dict, entries) ==
    IF entries = << >> THEN dict
    ELSE StoreAll(Store(dict, Head(entries).key, Head(entries).value),
                  Tail(entries))

fileSave(w, files_written) ==
    LET got == roots_loop(w, w.image_directories, << >>, << >>, << >>)
    IN  IF got.raised # "none"
        THEN [raised |-> got.raised,
              scripts |-> files_written.scripts,
              flats |-> StoreAll(files_written.flats, got.flats)]
        ELSE [raised |-> "none",
              scripts |-> Store(files_written.scripts, got.path, got.command),
              flats |-> StoreAll(files_written.flats, got.flats)]

(***************************************************************************)
(* Saving: one or two acquisition roots (the second with the same grid as  *)
(* the first, as the channels of one acquisition, or with another grid),   *)
(* and the same event loop.                                                *)
(***************************************************************************)
SaveInit ==
    /\ \E first \in Layouts :
          \/ /\ disk = LayoutDisk(first, RootA)
             /\ image_dirs = <<RootA>>
          \/ \E second \in Layouts :
                /\ disk = LayoutDisk(first, RootA) @@ LayoutDisk(second, RootB)
                /\ image_dirs = <<RootA, RootB>>
    /\ LET m == main(disk, image_dirs)
       IN  app = m.app /\ window = m.window /\ handler = m.handler
    /\ written = NothingWritten
    /\ gd_reference = << >> /\ gd_rows = 0 /\ gd_offset = 0
    /\ gd_result = [called |-> FALSE, divisor |-> << >>]

FileSave ==
    /\ CanHandleEvent
    /\ LET saved == fileSave(window, written)
       IN  /\ written' = saved
           /\ app' = IF saved.raised = "none"
                     THEN [app EXCEPT !.events = @ + 1]
                     ELSE [status |-> "crashed", raised |-> saved.raised,
                           events |-> app.events + 1]
    /\ handler' = [name |-> "fileSave", calls |-> 0, report |-> NoReport]
    /\ UNCHANGED <<window, fs_vars, gd_vars>>

\* File > Quit, Ctrl+Q or the window's close button: fileQuit closes the
\* window (closeEvent calls fileQuit again, and close() of a window that is
\* closing does nothing), app.exec() returns and main exits.
Quit ==
    /\ CanHandleEvent
    /\ app' = [app EXCEPT !.status = "closed", !.events = @ + 1]
    /\ UNCHANGED <<window, handler, written, fs_vars, gd_vars>>

\* one event of the event loop
Next == MoveSlider \/ EditText \/ SelectZ \/ SelectFlat \/ FileSave \/ Quit

Spec == Init /\ [][Next]_vars

SpecSave == SaveInit /\ [][Next]_vars

(***************************************************************************)
(* Claims about the composite engine and the handlers (checked under       *)
(* Spec).  handler.report is the report of the last handler's              *)
(* updateDisplay call.                                                     *)
(***************************************************************************)
Abs(n) == IF n < 0 THEN 0 - n ELSE n

SetMax(S) == CHOOSE x \in S : \A y \in S : y <= x

SetMin(S) == CHOOSE x \in S : \A y \in S : x <= y

\* the pixel coordinate that updateDisplay gives a grid coordinate
TilePlacement(c) == TruncDiv(c, XYVoxelTenths)

\* floor(c / XYVoxelTenths), by its defining inequalities
FloorPlacement(c) ==
    CHOOSE p \in (0 - Abs(c) - 1)..Abs(c) :
        p * XYVoxelTenths <= c /\ c < (p + 1) * XYVoxelTenths

ImgDir == window.image_directories[1].value

UniformTiles ==
    \A i, j \in 1..Len(window.images) :
        /\ Rows(window.images[i].value) = Rows(window.images[j].value)
        /\ Cols(window.images[i].value) = Cols(window.images[j].value)

Allocated ==
    /\ app.status = "running"
    /\ handler.calls >= 1
    /\ handler.report.shape # <<0, 0>>

\* the composite geometry of the last updateDisplay call, for the pixel
\* coordinate floor(micron coordinate / voxel size) of a grid coordinate
FloorGeometry ==
    LET RowOf(y) == FloorPlacement(y)
        ColOf(x) == FloorPlacement(x)
        rows == {RowOf(k[2]) : k \in Keys}
        cols == {ColOf(k[1]) : k \in Keys}
        tile == window.images[1].value
        shape == handler.report.shape
        writes == handler.report.writes
    IN  /\ shape[2] = SetMax(cols) + Cols(tile) - SetMin(cols)
        /\ shape[1] = SetMax(rows) + Rows(tile) - SetMin(rows)
        /\ \A n \in 1..Len(writes) :
              /\ writes[n].yidx = RowOf(writes[n].key[2]) - SetMin(rows)
              /\ writes[n].xidx = ColOf(writes[n].key[1]) - SetMin(cols)
              /\ writes[n].yidx >= 0 /\ writes[n].xidx >= 0
              /\ writes[n].yidx + writes[n].rows <= shape[1]
              /\ writes[n].xidx + writes[n].cols <= shape[2]
        /\ handler.report.raised = "none" =>
              \A k \in Keys : \E n \in 1..Len(writes) : writes[n].key = k

\* C5: for uniformly sized tiles the composite allocated by updateDisplay
\* is max - min placement + tile size wide and high, with the placement
\* floor(micron coordinate / voxel size), and every tile is written at its
\* placement minus the minimum placement, inside the composite.
C5_GeometryWithFloorPlacement ==
    (Allocated /\ UniformTiles) => FloorGeometry

\* the stack of a key, and whether it has a file for the Z chooser's text
StackOf(key) == Lookup(ImgDir, key)

HasPlane(key) ==
    \E n \in 1..Len(StackOf(key)) :
        StartsWithZ(StackOf(key)[n], CurrentText(window.z_chooser))

Covered(i, j) ==
    \E k \in Keys : HasKey(window.images, k) /\
        LET yidx == TilePlacement(k[2]) - SetMin({TilePlacement(q[2]) : q \in Keys})
            xidx == TilePlacement(k[1]) - SetMin({TilePlacement(q[1]) : q \in Keys})
            tile == Lookup(window.images, k)
        IN  /\ i > yidx /\ i <= yidx + Rows(tile)
            /\ j > xidx /\ j <= xidx + Cols(tile)

\* C6: after updateDisplay, for every tile and every pixel p of it at tile
\* row i, the composite at the pixel's placed location holds
\* (max(p, dark) - dark) / divisor[i], the dark-subtracted value being >= 0
\* and 0 exactly when p <= dark; every composite pixel covered by no tile is
\* 0; a single tile with offset 0, the all-ones reference and dark 0 is
\* reproduced exactly.  (Stated for the states in which every tile has a
\* file for the selected Z, so that every tile's pixels are that plane's.)
C6_CompositeHoldsNormalisedTiles ==
    (app.status = "running" /\ handler.calls >= 1 /\ \A k \in Keys : HasPlane(k)) =>
        LET img == window.canvas.img
            dark == window.dark_slider
            row0 == SetMin({TilePlacement(q[2]) : q \in Keys})
            col0 == SetMin({TilePlacement(q[1]) : q \in Keys})
        IN  /\ handler.report.shown
            /\ \A k \in Keys : HasKey(window.images, k) =>
                  LET tile == Lookup(window.images, k)
                      divisor == get_divisor(get_flat_file_from_widget(window, k),
                                     Rows(tile),
                                     Lookup(window.stack_y_offset_slider_widget, k))
                      yidx == TilePlacement(k[2]) - row0
                      xidx == TilePlacement(k[1]) - col0
                  IN  \A i \in 1..Rows(tile) : \A j \in 1..Cols(tile) :
                          LET p == tile[i][j]
                              floored == Max(p, dark) - dark
                          IN  /\ floored >= 0
                              /\ (floored = 0) <=> (p <= dark)
                              /\ yidx + i <= Rows(img) /\ xidx + j <= Cols(img)
                              /\ img[yidx + i][xidx + j] = Fraction(floored, divisor[i])
                              /\ (/\ Cardinality(Keys) = 1
                                  /\ dark = 0
                                  /\ Lookup(window.stack_y_offset_slider_widget, k) = 0
                                  /\ \A n \in 1..Len(get_flat_file_from_widget(window, k)) :
                                        get_flat_file_from_widget(window, k)[n] = 1)
                                 => img[yidx + i][xidx + j] = <<p, 1>>
            /\ \A i \in 1..Rows(img) : \A j \in 1..Cols(img) :
                  ~Covered(i, j) => img[i][j] = Zero

\* C7: after any sequence of Z selections, a tile whose stack has no file for
\* the selected Z contributes nothing to the composite (no pixels of that
\* tile are written, neither an earlier Z's nor any other), and the tiles
\* that have the plane are still composited and displayed.
C7_AbsentPlaneContributesNothing ==
    (app.status = "running" /\ handler.calls >= 1) =>
        /\ \A k \in Keys : ~HasPlane(k) =>
              \A n \in 1..Len(handler.report.writes) :
                  handler.report.writes[n].key # k
        /\ handler.report.shown
        /\ \A k \in Keys : HasPlane(k) =>
              \E n \in 1..Len(handler.report.writes) :
                  handler.report.writes[n].key = k

\* the parameters: dark level, offsets, reference selections, Z selection
Parameters(w) ==
    <<w.dark_slider, w.stack_y_offset_slider_widget,
      w.stack_flat_file_widget, CurrentText(w.z_chooser)>>

\* C8: every change of a parameter (an offset, the dark level, a reference
\* selection, the Z selection) triggers exactly one recomputation, made from
\* the new parameter values (and, for a new Z, from the planes loaded for
\* it) and ended before the handler returns; no handler has more than one
\* recomputation in progress.
C8_OneRecomputationPerChange ==
    [][ /\ handler'.calls <= 1
        /\ (Parameters(window') # Parameters(window)) =>
              /\ handler'.calls = 1
              /\ handler'.report.dark = window'.dark_slider
              /\ handler'.report.offsets = window'.stack_y_offset_slider_widget
              /\ handler'.report.flats = window'.stack_flat_file_widget
              /\ handler'.report.images = window'.images
              /\ \A k \in Keys : HasPlane(k)' =>
                    /\ HasKey(window'.images, k)
                    /\ \E n \in 1..Len(StackOf(k)) :
                          /\ StartsWithZ(StackOf(k)[n], CurrentText(window'.z_chooser))
                          /\ Lookup(window'.images, k) = disk[StackOf(k)[n]]
      ]_vars

\* C8 witness: a text edit ("300" in the dark line edit) has moved the dark
\* slider to its maximum and recomputed the composite once with it.
C8_Witness ==
    /\ handler.name = "onInputChanged"
    /\ handler.calls = 1
    /\ window.dark_slider = DarkMaximum
    /\ handler.report.dark = DarkMaximum

(***************************************************************************)
(* Claims about the catalog (SpecCatalog) and the saved files (SpecSave).  *)
(***************************************************************************)
\* a directory name that does not parse as integer_integer
Malformed(name) ==
    LET parts == Split(name, "_")
    IN  ~(Len(parts) = 2 /\ IsNumeral(parts[1]) /\ IsNumeral(parts[2]))

\* C9: when a tile directory name does not parse as integer_integer, building
\* the catalog reports a typed error that identifies the offending path and
\* raises no unhandled exception.
C9_MalformedNameIsReportedNotRaised ==
    (/\ app.status # "not_started"
     /\ \E f \in DOMAIN disk : Malformed(f.xydir)) =>
        /\ app.raised = "none"
        /\ app.status = "invalid_grid_coordinate"

\* the tile directories on disk, and the commands of all scripts for one
TileDirectories == {Dirname(f) : f \in DOMAIN disk}

CommandsFor(d) ==
    {<<s, n>> \in (1..Len(written.scripts)) \X (1..Cardinality(DOMAIN disk)) :
        /\ n <= Len(written.scripts[s].value)
        /\ written.scripts[s].value[n].input = d}

\* C10: after fileSave, for any number of acquisition roots, the script
\* output holds exactly one destriping command for every tile directory of
\* every root, with the directory's input path, output path, divisor-image
\* path, the current dark level and the argument string; and exactly one
\* divisor image is written per distinct <X>_<Y> directory name.  (Stated for
\* the states in which every stack of every root has an image loaded under
\* its grid key, so that fileSave raises nothing.)
EveryStackLoaded ==
    \A r \in 1..Len(window.image_directories) :
        \A n \in 1..Len(window.image_directories[r].value) :
            HasKey(window.images, window.image_directories[r].value[n].key)

C10_OneCommandPerTileDirectory ==
    (handler.name = "fileSave" /\ EveryStackLoaded) =>
        /\ written.raised = "none"
        /\ \A d \in TileDirectories :
              /\ Cardinality(CommandsFor(d)) = 1
              /\ \A c \in CommandsFor(d) :
                    LET line == written.scripts[c[1]].value[c[2]]
                    IN  /\ line.output = [root |-> d.root \o Destriped,
                                          xdir |-> d.xdir, xydir |-> d.xydir]
                        /\ line.flat = d.xydir
                        /\ line.dark = window.dark_slider
                        /\ line.args = DEFAULT_PYSTRIPE_ARGS
        /\ {written.flats[n].key : n \in 1..Len(written.flats)}
               = {d.xydir : d \in TileDirectories}
        /\ \A n, m \in 1..Len(written.flats) :
              written.flats[n].key = written.flats[m].key => n = m

(***************************************************************************)
(* Claims about the slider and line edit pairs (checked under Spec).       *)
(***************************************************************************)
\* the sliders hold, and the last recomputation read, a dark level in
\* DarkMinimum..DarkMaximum and offsets in OffsetMinimum..OffsetMaximum
InRange(dark, offsets) ==
    /\ dark \in DarkMinimum..DarkMaximum
    /\ \A i \in 1..Len(offsets) :
          offsets[i].value \in OffsetMinimum..OffsetMaximum

LevelsInRange ==
    app.status # "not_started" =>
        /\ InRange(window.dark_slider, window.stack_y_offset_slider_widget)
        /\ handler.calls >= 1 =>
              InRange(handler.report.dark, handler.report.offsets)

\* one step in which a line edit took a text that int() does not take
NonIntegerEdit ==
    /\ handler'.name = "onInputChanged"
    /\ \E hook \in Hooks :
          /\ InputText(window', hook) # InputText(window, hook)
          /\ ~IsIntLiteral(InputText(window', hook))

\* C11: after any sequence of text edits and slider moves, the offset of
\* every tile that get_divisor uses is an integer in [-200, 200] and the
\* dark level that updateDisplay uses is an integer in [0, 250]; a text
\* edit whose text is not an integer leaves every offset and the dark level
\* as they were and runs no recomputation.
C11_LevelsStayInRange ==
    /\ []LevelsInRange
    /\ [][NonIntegerEdit =>
             /\ window'.dark_slider = window.dark_slider
             /\ window'.stack_y_offset_slider_widget =
                    window.stack_y_offset_slider_widget
             /\ handler'.calls = 0
             /\ app'.status = "running"]_vars

\* C11 witness: an offset was typed past the slider's range and sits at
\* the maximum, then a non-integer text was typed into the same line edit
\* and nothing was recomputed.
C11_Witness ==
    /\ app.status = "running"
    /\ handler.name = "onInputChanged"
    /\ handler.calls = 0
    /\ \E k \in Keys :
          /\ Lookup(window.stack_y_offset_slider_widget, k) = OffsetMaximum
          /\ ~IsIntLiteral(Lookup(window.stack_y_offset_box_widget, k))

====
